---- MODULE Spec2Model ----
(***************************************************************************)
(* A model of kubernetes-harness-idp-catalog-sync.py: the identifier       *)
(* generator, the service-to-deployment mapping, the dependency detection  *)
(* of create_harness_entity, register_in_harness and the loop of main.     *)
(*                                                                         *)
(* Python strings are sequences of one-character strings, so that lower(), *)
(* re.sub, slicing and the "in" substring test are computed, not assumed.  *)
(***************************************************************************)
EXTENDS Integers, Sequences, FiniteSets, TLC

VARIABLES
    call,       \* one invocation of generate_harness_identifier: arguments, result
    cluster,    \* what the Kubernetes API holds: deployments, services, pods
    args,       \* the command line: namespace, resource_kind, analyze_dependencies
    resources,  \* the list get_kubernetes_resources returned
    pc,         \* position in main / create_harness_entity / register_in_harness
    idx,        \* index of the resource the loop of main is at (1-based)
    entity,     \* the locals of the running create_harness_entity
    http,       \* the locals of the running register_in_harness
    requests,   \* every HTTP POST sent to the entities API during the run, in order
    returned,   \* per processed resource: what register_in_harness returned ("skipped" for a Pod)
    harness_success_count,
    api,        \* how the entities API answers: "any" response, or as a "store" of entries
    registry,   \* the entities API's store: file path -> entry
    run,        \* which run of the pipeline this is
    previousRun \* the snapshot of the run before this one and the registry as it left it

vars == <<call, cluster, args, resources, pc, idx, entity, http, requests,
          returned, harness_success_count, api, registry, run, previousRun>>

----------------------------------------------------------------------------
(* Strings *)

UpperChars == <<"A","B","C","D","E","F","G","H","I","J","K","L","M",
                "N","O","P","Q","R","S","T","U","V","W","X","Y","Z">>
LowerChars == <<"a","b","c","d","e","f","g","h","i","j","k","l","m",
                "n","o","p","q","r","s","t","u","v","w","x","y","z">>
DigitChars == {"0","1","2","3","4","5","6","7","8","9"}

Range(s) == {s[i] : i \in 1..Len(s)}

\* str.lower() on one character (ASCII letters; every other character is kept)
LowerChar(c) ==
    IF \E i \in 1..26 : UpperChars[i] = c
    THEN LowerChars[CHOOSE i \in 1..26 : UpperChars[i] = c]
    ELSE c

\* str.lower()
Lower(s) == [i \in 1..Len(s) |-> LowerChar(s[i])]

\* Python's "needle in haystack" on strings
Contains(haystack, needle) ==
    \E i \in 0..(Len(haystack) - Len(needle)) :
        \A j \in 1..Len(needle) : haystack[i + j] = needle[j]

Min(a, b) == IF a < b THEN a ELSE b

----------------------------------------------------------------------------
(* generate_harness_identifier *)

\* the character class [a-z0-9_$] of the re.sub pattern
IdentChars == Range(LowerChars) \cup DigitChars \cup {"_", "$"}
\* the character class [a-z_] of the re.match pattern
IdentStartChars == Range(LowerChars) \cup {"_"}

MaxIdentifierLen == 128

K8sPrefix == <<"k", "8", "s", "_">>

\* f"{resource_namespace}_{resource_kind}_{resource_name}"
JoinedName(resource_name, resource_namespace, resource_kind) ==
    resource_namespace \o <<"_">> \o resource_kind \o <<"_">> \o resource_name

\* re.sub(r"[^a-z0-9_$]", "_", name)
SubInvalid(s) == [i \in 1..Len(s) |-> IF s[i] \in IdentChars THEN s[i] ELSE "_"]

\* if not re.match(r"^[a-z_]", name): name = f"k8s_{name}"
EnsureStart(s) ==
    IF Len(s) > 0 /\ s[1] \in IdentStartChars THEN s ELSE K8sPrefix \o s

\* name[:128]
Truncate(s) == SubSeq(s, 1, Min(MaxIdentifierLen, Len(s)))

\* the prefix added after the truncation
generate_harness_identifier_prefix_last(resource_name, resource_namespace, resource_kind) ==
    EnsureStart(Truncate(SubInvalid(Lower(
        JoinedName(resource_name, resource_namespace, resource_kind)))))

\* a suffix that differs from run to run, as the random suffix the code once had
generate_harness_identifier_run_suffix(resource_name, resource_namespace, resource_kind) ==
    Truncate(EnsureStart(SubInvalid(Lower(
        JoinedName(resource_name, resource_namespace, resource_kind))))
        \o (IF run = 1 THEN <<"_", "a">> ELSE <<"_", "b">>))

generate_harness_identifier(resource_name, resource_namespace, resource_kind) ==
    Truncate(EnsureStart(SubInvalid(Lower(
        JoinedName(resource_name, resource_namespace, resource_kind)))))

----------------------------------------------------------------------------
(* Python dicts and lists *)

EmptyDict == [k \in {} |-> <<>>]

\* d[k] = v
Put(d, k, v) == [x \in (DOMAIN d) \cup {k} |-> IF x = k THEN v ELSE d[x]]

RECURSIVE Concat(_)
\* the lists of a list, appended in order
Concat(ss) == IF ss = <<>> THEN <<>> ELSE Head(ss) \o Concat(Tail(ss))

----------------------------------------------------------------------------
(* get_kubernetes_resources: the service-to-deployment mapping *)

KindDeployment == <<"D","e","p","l","o","y","m","e","n","t">>
KindService == <<"S","e","r","v","i","c","e">>
KindPod == <<"P","o","d">>

\* service_selector and all(deployment_labels.get(k) == v
\*     for k, v in service_selector.items() if k in deployment_labels)
SelectorMatches(service_selector, deployment_labels) ==
    /\ DOMAIN service_selector # {}
    /\ \A k \in DOMAIN service_selector :
          k \in DOMAIN deployment_labels => deployment_labels[k] = service_selector[k]

IsDeployment(r) == r.kind = KindDeployment
IsService(r) == r.kind = KindService
IsPod(r) == r.kind = KindPod

\* the inner loop over resources: the names of the Deployments matching the service
ImplementingDeployments(service, found) ==
    LET Implements(r) == IsDeployment(r) /\ SelectorMatches(service.selector, r.labels)
        matching == SelectSeq(found, Implements)
    IN  [i \in 1..Len(matching) |-> matching[i].name]

RECURSIVE ServiceToDeploymentMap(_, _)
\* the loop over all_services; a later service of the same name overwrites the entry
ServiceToDeploymentMap(all_services, found) ==
    IF all_services = <<>> THEN EmptyDict
    ELSE LET n == Len(all_services)
             before == ServiceToDeploymentMap(SubSeq(all_services, 1, n - 1), found)
             service == all_services[n]
             implementing_deployments == ImplementingDeployments(service, found)
         IN  IF implementing_deployments # <<>>
             THEN Put(before, service.name, implementing_deployments)
             ELSE before

\* the items the API lists for one kind, under the namespace filter ("" is None)
ListItems(items, namespace) ==
    LET InNamespace(r) == namespace = <<>> \/ r.namespace = namespace
    IN  SelectSeq(items, InNamespace)

\* resource_types, from the resource_kind filter ("" is None)
ResourceTypes(resource_kind) ==
    IF resource_kind = "" THEN <<"deployment", "service">> ELSE <<resource_kind>>

\* the items fetched for one resource type; a type the code has no branch for
\* fetches nothing, and a type whose list call raises (failing) is skipped
Fetch(k8s, resource_type, namespace, failing) ==
    CASE resource_type \in failing -> <<>>
      [] resource_type = "deployment" -> ListItems(k8s.deployments, namespace)
      [] resource_type = "service" -> ListItems(k8s.services, namespace)
      [] resource_type = "pod" -> ListItems(k8s.pods, namespace)
      [] OTHER -> <<>>

\* the list get_kubernetes_resources returns when the cluster is reached; failing
\* are the resource types whose list call raises
get_kubernetes_resources(k8s, namespace, resource_kind, failing) ==
    LET resource_types == ResourceTypes(resource_kind)
        found == Concat([i \in 1..Len(resource_types) |->
                            Fetch(k8s, resource_types[i], namespace, failing)])
        all_services == SelectSeq(found, IsService)
        service_to_deployment_map == ServiceToDeploymentMap(all_services, found)
    IN  [i \in 1..Len(found) |->
            [f \in (DOMAIN found[i]) \cup {"service_to_deployment_map"} |->
                IF f = "service_to_deployment_map"
                THEN service_to_deployment_map ELSE found[i][f]]]

----------------------------------------------------------------------------
(* create_harness_entity: dependencies, document, file path *)

\* next((r for r in all_resources if r["kind"] == "Deployment" and r["name"] == dep_name), None)
FirstDeploymentNamed(all_resources, dep_name) ==
    LET Named(r) == IsDeployment(r) /\ r.name = dep_name
    IN  SelectSeq(all_resources, Named)

\* the self-reference test left out
IndirectDependencyNoSelfTest(resource, all_resources, service_name, dep_name) ==
    IF FirstDeploymentNamed(all_resources, dep_name) # <<>>
    THEN LET dep_resource == Head(FirstDeploymentNamed(all_resources, dep_name))
         IN  <<[name |-> dep_name,
                identifier |-> generate_harness_identifier(dep_name, dep_resource.namespace,
                                                           dep_resource.kind),
                type |-> "Deployment",
                via |-> service_name]>>
    ELSE <<>>

\* the entries appended for one Deployment of the implementer list
IndirectDependency(resource, all_resources, service_name, dep_name) ==
    IF dep_name # resource.name /\ FirstDeploymentNamed(all_resources, dep_name) # <<>>
    THEN LET dep_resource == Head(FirstDeploymentNamed(all_resources, dep_name))
         IN  <<[name |-> dep_name,
                identifier |-> generate_harness_identifier(dep_name, dep_resource.namespace,
                                                           dep_resource.kind),
                type |-> "Deployment",
                via |-> service_name]>>
    ELSE <<>>

\* the entries appended for one (environment value, Service) pair
ServiceDependencies(resource, all_resources, env_value, service) ==
    IF Contains(Lower(env_value), Lower(service.name))
    THEN <<[name |-> service.name,
            identifier |-> generate_harness_identifier(service.name, service.namespace,
                                                       service.kind),
            type |-> "Service"]>>
         \o (IF /\ "service_to_deployment_map" \in DOMAIN resource
                /\ service.name \in DOMAIN resource.service_to_deployment_map
             THEN LET implementers == resource.service_to_deployment_map[service.name]
                  IN  Concat([i \in 1..Len(implementers) |->
                         IndirectDependency(resource, all_resources, service.name,
                                            implementers[i])])
             ELSE <<>>)
    ELSE <<>>

\* the two loops exchanged: the Services outside, the environment values inside
DependenciesServiceMajor(resource, all_resources) ==
    IF all_resources # <<>> /\ IsDeployment(resource) /\ "env_vars" \in DOMAIN resource
    THEN LET services == SelectSeq(all_resources, IsService)
         IN  Concat([s \in 1..Len(services) |->
                Concat([e \in 1..Len(resource.env_vars) |->
                   ServiceDependencies(resource, all_resources,
                                       resource.env_vars[e].value, services[s])])])
    ELSE <<>>

\* the dependencies list; all_resources is <<>> when main passes None
Dependencies(resource, all_resources) ==
    IF all_resources # <<>> /\ IsDeployment(resource) /\ "env_vars" \in DOMAIN resource
    THEN LET services == SelectSeq(all_resources, IsService)
         IN  Concat([e \in 1..Len(resource.env_vars) |->
                Concat([s \in 1..Len(services) |->
                   ServiceDependencies(resource, all_resources,
                                       resource.env_vars[e].value, services[s])])])
    ELSE <<>>

\* the lines of the dependsOn block: "- Component:<name>" for a Service, and a
\* "# via service <via>" comment followed by "- Component:<name>" for an entry with via
DependsOnLines(dependencies) ==
    Concat([i \in 1..Len(dependencies) |->
        IF dependencies[i].type = "Service"
        THEN <<[line |-> "item", component |-> dependencies[i].name]>>
        ELSE IF "via" \in DOMAIN dependencies[i]
        THEN <<[line |-> "comment", service |-> dependencies[i].via],
               [line |-> "item", component |-> dependencies[i].name]>>
        ELSE <<>>])

\* the document, field by field (the text is split at "spec:" and "metadata:" and
\* put together again around the dependsOn block)
IdpYaml(resource, identifier, dependencies) ==
    [identifier |-> identifier,
     name |-> resource.name,
     subtype |-> resource.kind,
     dependsOn |-> DependsOnLines(dependencies),
     description |-> <<resource.kind, resource.name, resource.namespace>>,
     tags |-> <<"kubernetes", "auto-onboarded", resource.namespace, Lower(resource.kind)>>]

\* f"{resource['namespace']}/{resource['kind'].lower()}/{resource['name']}/idp.yaml"
FilePath(resource) ==
    resource.namespace \o <<"/">> \o Lower(resource.kind) \o <<"/">> \o resource.name
        \o <<"/","i","d","p",".","y","a","m","l">>

\* f"Add {resource['kind']} {resource['name']} from namespace {resource['namespace']}"
CommitMessage(resource) ==
    <<"A","d","d"," ">> \o resource.kind \o <<" ">> \o resource.name
        \o <<" ","f","r","o","m"," ","n","a","m","e","s","p","a","c","e"," ">>
        \o resource.namespace

\* the payload register_in_harness posts for the resource
Payload(resource, all_resources) ==
    LET identifier == generate_harness_identifier(resource.name, resource.namespace,
                                                  resource.kind)
        dependencies == Dependencies(resource, all_resources)
    IN  [yaml |-> IdpYaml(resource, identifier, dependencies),
         file_path |-> FilePath(resource),
         commit_message |-> CommitMessage(resource)]

----------------------------------------------------------------------------
(* register_in_harness: the responses of the entities API *)

TextAlreadyExists == <<"a","l","r","e","a","d","y"," ","e","x","i","s","t","s">>
TextDoesNotMatch == <<"d","o","e","s"," ","n","o","t"," ","m","a","t","c","h">>
TextAlreadyAFile == <<"a","l","r","e","a","d","y"," ","a"," ","f","i","l","e">>

\* the upper bound of the status test left out
IsSuccessUnbounded(response) == response.status >= 200

\* response.status_code >= 200 and response.status_code < 300
IsSuccess(response) == response.status >= 200 /\ response.status < 300

\* only "already exists" is recognised
IsConflictAlreadyExistsOnly(response) ==
    response.status = 400 /\ Contains(Lower(response.text), TextAlreadyExists)

\* response.status_code == 400 and ("already exists" in response.text.lower() or
\*   "does not match" in response.text.lower() or "already a file" in response.text.lower())
IsConflict(response) ==
    /\ response.status = 400
    /\ \/ Contains(Lower(response.text), TextAlreadyExists)
       \/ Contains(Lower(response.text), TextDoesNotMatch)
       \/ Contains(Lower(response.text), TextAlreadyAFile)

\* the request sent first: no operationMode in the URL
CreateRequest(payload) == [operationMode |-> "CREATE", payload |-> payload]

\* the retry: operationMode=UPSERT in the URL, data=json.dumps(payload) as before
UpsertRequest(payload) == [operationMode |-> "UPSERT", payload |-> payload]

NoResponse == [raised |-> FALSE, status |-> 0, text |-> <<>>]
\* requests.post raised (the registry could not be reached)
TransportError == [raised |-> TRUE, status |-> 0, text |-> <<>>]
Answer(status, text) == [raised |-> FALSE, status |-> status, text |-> text]

\* the locals of register_in_harness before the first request
NoHttp == [payload |-> <<>>, response |-> NoResponse, upsert_response |-> NoResponse,
           sent |-> <<>>, result |-> "none"]

----------------------------------------------------------------------------
(* The identifier generator on its own: any three strings in, one call *)

MaxNamespaceLen == 1
MaxNameLen == 2

\* samples of every character class the function tells apart: lower case, upper
\* case, digit, "$", and characters outside the identifier alphabet
SampleChars == {"a", "Z", "7", "$", "-"}

Strings(alphabet, n) == UNION {[1..k -> alphabet] : k \in 0..n}

Repeat(c, n) == [i \in 1..n |-> c]

\* lengths of the long prefix of a name: with them the joined string ends just
\* below, at and above MaxIdentifierLen
LongLens == {MaxIdentifierLen - 14, MaxIdentifierLen - 13,
             MaxIdentifierLen, MaxIdentifierLen + 1}

IdNames ==
    {pad \o tail : pad \in {<<>>} \cup {Repeat("x", n) : n \in LongLens},
                   tail \in Strings(SampleChars, MaxNameLen)}
IdNamespaces == Strings(SampleChars, MaxNamespaceLen)
IdKinds == {KindDeployment, KindService, KindPod, <<>>}

NoCall == [name |-> <<>>, namespace |-> <<>>, kind |-> <<>>, result |-> <<>>, done |-> TRUE]

PipelineIdle ==
    /\ cluster = <<>>
    /\ args = <<>>
    /\ resources = <<>>
    /\ pc = "idle"
    /\ idx = 0
    /\ entity = <<>>
    /\ http = <<>>
    /\ requests = <<>>
    /\ returned = <<>>
    /\ harness_success_count = 0
    /\ api = "none"
    /\ registry = <<>>
    /\ run = 0
    /\ previousRun = <<>>

pipelineVars == <<cluster, args, resources, pc, idx, entity, http, requests,
                  returned, harness_success_count, api, registry, run, previousRun>>

InitId ==
    /\ call \in [name : IdNames, namespace : IdNamespaces, kind : IdKinds,
                 result : {<<>>}, done : {FALSE}]
    /\ PipelineIdle

Generate ==
    /\ ~call.done
    /\ call' = [call EXCEPT
                  !.result = generate_harness_identifier(call.name, call.namespace, call.kind),
                  !.done = TRUE]
    /\ UNCHANGED pipelineVars

NextId == Generate

SpecId == InitId /\ [][NextId]_vars

\* C8: every generated identifier is non-empty, at most 128 characters long,
\* starts with a character of [a-z_] and continues with characters of [a-z0-9_$]
IdentifierLegal ==
    call.done =>
        /\ Len(call.result) >= 1
        /\ Len(call.result) <= 128
        /\ call.result[1] \in Range(LowerChars) \cup {"_"}
        /\ \A i \in 2..Len(call.result) :
              call.result[i] \in Range(LowerChars) \cup DigitChars \cup {"_", "$"}

\* C8's case: a joined string longer than 128 characters that starts with a digit
\* or "$" and holds upper-case and non-alphanumeric characters has been converted
IdentifierLegalWitness ==
    /\ call.done
    /\ Len(JoinedName(call.name, call.namespace, call.kind)) > 128
    /\ Len(call.namespace) > 0
    /\ call.namespace[1] \in {"7", "$"}
    /\ "Z" \in Range(call.name)
    /\ "-" \in Range(call.name)
    /\ Len(call.result) = 128

----------------------------------------------------------------------------
(* Clusters *)

Ns1 == <<"n","s","1">>
Ns2 == <<"n","s","2">>
SvcA == <<"s","v","c","-","a">>
SvcB == <<"s","v","c","-","b">>
DepA == <<"d","e","p","-","a">>
DepDotA == <<"d","e","p",".","a">>
DepB == <<"d","e","p","-","b">>
PodA == <<"p","o","d","-","a">>
PodB == <<"p","o","d","-","b">>
UrlSvcA == <<"h","t","t","p",":","/","/","s","v","c","-","a",":","8","0","8","0">>
HostSvcB == <<"S","V","C","-","B",".","n","s","2">>

NoLabels == EmptyDict
AppA == [k \in {"app"} |-> "a"]
AppATierY == [k \in {"app", "tier"} |-> IF k = "app" THEN "a" ELSE "y"]
AppATierZ == [k \in {"app", "tier"} |-> IF k = "app" THEN "a" ELSE "z"]

\* the dict appended for a Deployment (lines 115-122); env_vars in insertion order
Deployment(name, namespace, labels, env_vars) ==
    [name |-> name, namespace |-> namespace, kind |-> KindDeployment,
     labels |-> labels, env_vars |-> env_vars, selector |-> labels]

\* the dict appended for a Service (lines 131-137)
Service(name, namespace, selector) ==
    [name |-> name, namespace |-> namespace, kind |-> KindService,
     labels |-> NoLabels, selector |-> selector]

\* the dict appended for a Pod (lines 148-153)
Pod(name, namespace) ==
    [name |-> name, namespace |-> namespace, kind |-> KindPod, labels |-> NoLabels]

Env(name, value) == [name |-> name, value |-> value]

\* lists of at most n items of a pool, no two with the same name and namespace
Listings(pool, n) ==
    {s \in UNION {[1..k -> pool] : k \in 0..n} :
        \A i, j \in 1..Len(s) :
            i # j => (s[i].name # s[j].name \/ s[i].namespace # s[j].namespace)}

\* the clusters of at most n resources over the three pools
Clusters(deployments, services, pods, n) ==
    {c \in [deployments : Listings(deployments, n), services : Listings(services, n),
            pods : Listings(pods, n)] :
        Len(c.deployments) + Len(c.services) + Len(c.pods) <= n}

----------------------------------------------------------------------------
(* main, with one step per HTTP exchange *)

MaxResources == 2
MaxRuns == 2

PipelineDeployments ==
    {Deployment(DepA, Ns1, AppA, <<Env("TARGET", UrlSvcA)>>),
     Deployment(DepDotA, Ns1, NoLabels, <<>>),
     Deployment(DepB, Ns2, NoLabels, <<>>)}
PipelineServices == {Service(SvcA, Ns1, AppA)}
PipelinePods == {Pod(PodA, Ns1), Pod(PodB, Ns2)}

PipelineClusters ==
    Clusters(PipelineDeployments, PipelineServices, PipelinePods, MaxResources)

\* --namespace, --resource-kind (lower-cased), --analyze-dependencies
PipelineArgs ==
    [namespace : {<<>>, Ns1}, resource_kind : {"", "deployment", "pod", "ingress"},
     analyze_dependencies : BOOLEAN]

AnswerStatuses == {200, 201, 400, 409, 500}
AnswerTexts == {<<"E","n","t","i","t","y"," ","A","l","r","e","a","d","y"," ","E","x","i","s","t","s">>,
                <<"p","a","t","h"," ","d","o","e","s"," ","n","o","t"," ","m","a","t","c","h">>,
                <<"t","h","e","r","e"," ","i","s"," ","a","l","r","e","a","d","y"," ","a"," ","f","i","l","e">>,
                <<"i","n","v","a","l","i","d"," ","y","a","m","l">>}

\* what an entities API may answer to a request
AnyAnswers == {Answer(st, tx) : st \in AnswerStatuses, tx \in AnswerTexts} \cup {TransportError}

\* the answer of an API that keeps one entry per file path: a plain create of an
\* existing path is refused, an upsert is accepted
StoreAnswer(reg, request) ==
    IF request.operationMode = "CREATE" /\ request.payload.file_path \in DOMAIN reg
    THEN Answer(400, <<"E","n","t","i","t","y"," ","A","l","r","e","a","d","y"," ","E","x","i","s","t","s">>)
    ELSE Answer(200, <<>>)

\* the entries after the request was answered
StoreAfter(reg, request, answer) ==
    IF ~answer.raised /\ IsSuccess(answer)
    THEN Put(reg, request.payload.file_path,
             [identifier |-> request.payload.yaml.identifier, yaml |-> request.payload.yaml])
    ELSE reg

Answers(request) ==
    IF api = "store" THEN {StoreAnswer(registry, request)} ELSE AnyAnswers

NoPreviousRun == [resources |-> <<>>, registry |-> EmptyDict]

NoEntity == [identifier |-> <<>>, dependencies |-> <<>>]

\* main passes resources if args.analyze_dependencies else None
AllResources == IF args.analyze_dependencies THEN resources ELSE <<>>

\* create_harness_entity calls register_in_harness, drops what it returns, and
\* returns True
EntityCreated(result) == TRUE

Init ==
    /\ call = NoCall
    /\ cluster \in PipelineClusters
    /\ args \in PipelineArgs
    /\ api \in {"any", "store"}
    /\ resources = <<>>
    /\ pc = "start"
    /\ idx = 0
    /\ entity = NoEntity
    /\ http = NoHttp
    /\ requests = <<>>
    /\ returned = <<>>
    /\ harness_success_count = 0
    /\ registry = EmptyDict
    /\ run = 1
    /\ previousRun = NoPreviousRun

\* get_kubernetes_resources, and the early return of main on an empty list
Discover ==
    /\ pc = "start"
    /\ \/ \E failing \in SUBSET Range(ResourceTypes(args.resource_kind)) :
             resources' = get_kubernetes_resources(cluster, args.namespace,
                                                   args.resource_kind, failing)
       \/ resources' = <<>>     \* load_kube_config raised: the function returns []
    /\ IF resources' = <<>> THEN pc' = "warned" /\ idx' = 0 ELSE pc' = "loop" /\ idx' = 1
    /\ UNCHANGED <<call, cluster, args, entity, http, requests, returned,
                   harness_success_count, api, registry, run, previousRun>>

\* one iteration of the loop of main: success, the counters, the next resource
EndIteration(success) ==
    /\ harness_success_count' = IF success THEN harness_success_count + 1
                                ELSE harness_success_count
    /\ idx' = idx + 1
    /\ pc' = "loop"

\* create_harness_entity on a Pod: returns False before anything is built
SkipPod ==
    /\ pc = "loop"
    /\ idx <= Len(resources)
    /\ IsPod(resources[idx])
    /\ returned' = Append(returned, "skipped")
    /\ EndIteration(FALSE)
    /\ UNCHANGED <<call, cluster, args, resources, entity, http, requests,
                   api, registry, run, previousRun>>

\* the loop is at a resource that is not a Pod
AtStableResource == pc = "loop" /\ idx <= Len(resources) /\ ~IsPod(resources[idx])

\* create_harness_entity up to the first requests.post of register_in_harness
SendCreate ==
    /\ AtStableResource
    /\ LET resource == resources[idx]
           payload == Payload(resource, AllResources)
       IN  /\ entity' = [identifier |-> payload.yaml.identifier,
                         dependencies |-> Dependencies(resource, AllResources)]
           /\ http' = [NoHttp EXCEPT !.payload = payload, !.sent = <<CreateRequest(payload)>>]
           /\ requests' = Append(requests, CreateRequest(payload))
    /\ pc' = "create_sent"
    /\ UNCHANGED <<call, cluster, args, resources, idx, returned,
                   harness_success_count, api, registry, run, previousRun>>

\* a failed publish ends the loop
ReturnStopOnFailure(result) ==
    /\ returned' = Append(returned, result)
    /\ IF result = "failed"
       THEN pc' = "done" /\ idx' = idx /\ harness_success_count' = harness_success_count
       ELSE EndIteration(TRUE)

\* register_in_harness returns (True for "created" and "updated", False for
\* "failed"); create_harness_entity returns; main counts
Return(result) ==
    /\ returned' = Append(returned, result)
    /\ EndIteration(EntityCreated(result))

\* the answer to the create request, up to the return or to the upsert request
CreateAnswered ==
    /\ pc = "create_sent"
    /\ \E response \in Answers(http.sent[1]) :
        /\ registry' = StoreAfter(registry, http.sent[1], response)
        /\ IF response.raised
           THEN /\ http' = [http EXCEPT !.response = response, !.result = "failed"]
                /\ Return("failed")
                /\ UNCHANGED requests
           ELSE IF IsSuccess(response)
           THEN /\ http' = [http EXCEPT !.response = response, !.result = "created"]
                /\ Return("created")
                /\ UNCHANGED requests
           ELSE IF IsConflict(response)
           THEN /\ http' = [http EXCEPT !.response = response,
                                        !.sent = Append(@, UpsertRequest(http.payload))]
                /\ requests' = Append(requests, UpsertRequest(http.payload))
                /\ pc' = "upsert_sent"
                /\ UNCHANGED <<idx, returned, harness_success_count>>
           ELSE /\ http' = [http EXCEPT !.response = response, !.result = "failed"]
                /\ Return("failed")
                /\ UNCHANGED requests
    /\ UNCHANGED <<call, cluster, args, resources, entity, api, run, previousRun>>

\* the answer to the upsert request, up to the return
UpsertAnswered ==
    /\ pc = "upsert_sent"
    /\ \E upsert_response \in Answers(http.sent[2]) :
        /\ registry' = StoreAfter(registry, http.sent[2], upsert_response)
        /\ IF ~upsert_response.raised /\ IsSuccess(upsert_response)
           THEN /\ http' = [http EXCEPT !.upsert_response = upsert_response,
                                        !.result = "updated"]
                /\ Return("updated")
           ELSE /\ http' = [http EXCEPT !.upsert_response = upsert_response,
                                        !.result = "failed"]
                /\ Return("failed")
    /\ UNCHANGED <<call, cluster, args, resources, entity, requests, api, run, previousRun>>

\* the summary printed after the loop
Summarise ==
    /\ pc = "loop"
    /\ idx > Len(resources)
    /\ pc' = "done"
    /\ UNCHANGED <<call, cluster, args, resources, idx, entity, http, requests, returned,
                   harness_success_count, api, registry, run, previousRun>>

\* the script is run again on the same cluster, against the same store
Rerun ==
    /\ pc = "done"
    /\ api = "store"
    /\ run < MaxRuns
    /\ run' = run + 1
    /\ previousRun' = [resources |-> resources, registry |-> registry]
    /\ resources' = <<>>
    /\ pc' = "start"
    /\ idx' = 0
    /\ entity' = NoEntity
    /\ http' = NoHttp
    /\ requests' = <<>>
    /\ returned' = <<>>
    /\ harness_success_count' = 0
    /\ UNCHANGED <<call, cluster, args, api, registry>>

Next ==
    \/ Discover
    \/ SkipPod
    \/ SendCreate
    \/ CreateAnswered
    \/ UpsertAnswered
    \/ Summarise
    \/ Rerun

Spec == Init /\ [][Next]_vars


----------------------------------------------------------------------------
(* Claims about register_in_harness and main *)

\* a body that says the entity or path exists already, or that the path conflicts
BodyIndicatesConflict(text) ==
    \E phrase \in {TextAlreadyExists, TextDoesNotMatch, TextAlreadyAFile} :
        Contains(Lower(text), phrase)

CreateIsAnswered == http.sent # <<>> /\ (http.response # NoResponse \/ http.result # "none")

\* the one retry: the create request, then one upsert of the same document at the same path
RetriedOnce ==
    /\ Len(http.sent) = 2
    /\ http.sent[1].operationMode = "CREATE"
    /\ http.sent[2].operationMode = "UPSERT"
    /\ http.sent[2].payload.yaml = http.sent[1].payload.yaml
    /\ http.sent[2].payload.file_path = http.sent[1].payload.file_path

Is2xx(response) == ~response.raised /\ response.status \in 200..299

\* where one call of register_in_harness stands
Phase ==
    IF http.result # "none" THEN http.result
    ELSE IF Len(http.sent) = 2 THEN "conflict"
    ELSE IF Len(http.sent) = 1 THEN "pending"
    ELSE "none"

PhaseSteps ==
    {<<"pending", "created">>, <<"pending", "failed">>, <<"pending", "conflict">>,
     <<"conflict", "updated">>, <<"conflict", "failed">>}

\* what holds of one call in every state
CallShape ==
    /\ Len(http.sent) <= 2
    /\ Len(http.sent) >= 1 => http.sent[1].operationMode = "CREATE"
    /\ Len(http.sent) = 2 =>
          /\ http.sent[2].operationMode = "UPSERT"
          /\ ~Is2xx(http.response)
          /\ ~http.response.raised
          /\ http.response.status \in 400..499
          /\ BodyIndicatesConflict(http.response.text)
    /\ http.result = "created" => Len(http.sent) = 1 /\ Is2xx(http.response)
    /\ http.result = "updated" => Len(http.sent) = 2 /\ Is2xx(http.upsert_response)
    /\ (http.result = "failed" /\ Len(http.sent) = 2) => ~Is2xx(http.upsert_response)
    /\ (http.result = "failed" /\ Len(http.sent) = 1) => ~Is2xx(http.response)
    /\ (Len(http.sent) = 2 /\ http.result # "none" /\ Is2xx(http.upsert_response))
          => http.result = "updated"
    /\ (/\ http.result # "none"
        /\ http.response.status = 400
        /\ Contains(Lower(http.response.text), TextAlreadyExists)
        /\ http.upsert_response.status = 200)
          => (Len(http.sent) = 2 /\ http.result = "updated")
    /\ Len(requests) <= 2 * (Len(returned) + 1)

\* C2: one call sends a create and then at most one upsert, the upsert only after a
\* conflict answer to the create; a 2xx answer to the upsert gives "updated",
\* anything else "failed"; the call moves Pending -> {Created, Failed} or
\* Pending -> Conflict -> {Updated, Failed} and sends no third request
PublishStateMachine ==
    /\ [] CallShape
    /\ [][\/ Phase' = Phase
          \/ <<Phase, Phase'>> \in PhaseSteps
          \/ Phase \in {"none", "created", "updated", "failed"} /\ Phase' \in {"none", "pending"}
         ]_vars
    /\ [][http'.sent # http.sent =>
            \/ http'.sent = <<>>
            \/ Len(http'.sent) = 1
            \/ (Len(http.sent) = 1 /\ http'.sent = Append(http.sent, UpsertRequest(http.payload)))
         ]_vars

\* C2's case: 400 "already exists", then 200 on the upsert: two requests, success
PublishStateMachineWitness ==
    /\ http.response.status = 400
    /\ Contains(Lower(http.response.text), TextAlreadyExists)
    /\ http.upsert_response = Answer(200, <<>>)
    /\ Len(http.sent) = 2
    /\ http.result = "updated"
    /\ returned # <<>> /\ returned[Len(returned)] = "updated"

\* the resource a request was built for: its kind, name and namespace
RequestedFor(request) == request.payload.yaml.description

IsCreate(request) == request.operationMode = "CREATE"
NotPod(r) == r.kind # KindPod

\* the create requests sent so far, by resource
CreatesSent ==
    LET creates == SelectSeq(requests, IsCreate)
    IN  [i \in 1..Len(creates) |-> RequestedFor(creates[i])]

\* the first n resources that are not Pods
NonPods(n) ==
    LET stable == SelectSeq(SubSeq(resources, 1, n), NotPod)
    IN  [i \in 1..Len(stable) |-> <<stable[i].kind, stable[i].name, stable[i].namespace>>]

InLoop == pc \in {"loop", "create_sent", "upsert_sent"}

\* the steps a run has left at most: three per resource not yet processed, one
\* for the summary
StepsLeft ==
    IF ~InLoop THEN 0
    ELSE 3 * (Len(resources) - idx + 1) + 1
         + (CASE pc = "loop" -> 2 [] pc = "create_sent" -> 1 [] pc = "upsert_sent" -> 0)

\* C3: whatever the publishes end in, the create requests of a run are the non-Pod
\* resources of the snapshot, each once, in discovery order, no Pod is requested,
\* and a run over a non-empty snapshot reaches its summary: in the loop a step is
\* always possible, and every step leaves fewer steps to the summary
EveryResourcePublished ==
    /\ [](pc = "done" => CreatesSent = NonPods(Len(resources)))
    /\ [](\A i \in 1..Len(requests) : RequestedFor(requests[i])[1] # KindPod)
    /\ [](InLoop => (resources # <<>> /\ CreatesSent = NonPods(IF pc = "loop" THEN idx - 1 ELSE idx)))
    /\ [](resources # <<>> =>
            \/ pc = "done"
            \/ InLoop /\ \/ AtStableResource     \* SendCreate only assigns
                         \/ ENABLED SkipPod
                         \/ ENABLED CreateAnswered
                         \/ ENABLED UpsertAnswered
                         \/ ENABLED Summarise)
    /\ [][InLoop => (StepsLeft' < StepsLeft /\ (StepsLeft' = 0 => pc' = "done"))]_vars

\* C3's case: the first publish failed on a transport error, the second resource
\* was published all the same, and the summary is reached
EveryResourcePublishedWitness ==
    /\ pc = "done"
    /\ Len(returned) = 2
    /\ returned[1] = "failed"
    /\ Len(CreatesSent) = 2
    /\ http.result = "failed"
    /\ http.response.raised

\* the publishes that ended in created or updated
Published == {i \in 1..Len(returned) : returned[i] \in {"created", "updated"}}

\* C4: the summary's count of registered resources is the number of publishes that
\* ended in created or updated
SummaryCountsSuccesses ==
    pc = "done" => harness_success_count = Cardinality(Published)

\* C5: against an API that keeps one entry per file path, a run on the snapshot of
\* the run before it leaves the same paths with the same identifier and document
RerunLeavesRegistry ==
    (api = "store" /\ run >= 2 /\ resources = previousRun.resources) =>
        /\ DOMAIN registry = DOMAIN previousRun.registry
        /\ \A path \in DOMAIN registry :
              /\ registry[path].identifier = previousRun.registry[path].identifier
              /\ registry[path].yaml = previousRun.registry[path].yaml

\* C5's case: the second run is over, it upserted two entries the first run created
RerunLeavesRegistryWitness ==
    /\ api = "store"
    /\ run = 2
    /\ pc = "done"
    /\ resources = previousRun.resources
    /\ Cardinality(DOMAIN registry) = 2
    /\ Len(requests) = 4
    /\ returned = <<"updated", "updated">>
    /\ args.analyze_dependencies
    /\ \E path \in DOMAIN registry : registry[path].yaml.dependsOn # <<>>

----------------------------------------------------------------------------
(* The dependency analysis over many clusters: --analyze-dependencies, no
   filters, and an entities API that accepts every create request *)

MaxAnalysed == 3

\* labels and environment of a Deployment
Profiles ==
    {<<AppA, <<Env("TARGET", UrlSvcA)>> >>,
     <<AppA, <<>> >>,
     <<AppATierY, <<Env("UPSTREAM", SvcB)>> >>,
     <<NoLabels, <<Env("PEER", HostSvcB), Env("TARGET", UrlSvcA)>> >>,
     <<AppA, <<Env("PRIMARY", UrlSvcA), Env("PEER", HostSvcB),
               Env("BACKUP", UrlSvcA)>> >>}

AnalysedDeployments ==
    {Deployment(at[1], at[2], profile[1], profile[2]) :
        at \in {<<DepA, Ns1>>, <<DepA, Ns2>>, <<DepB, Ns1>>}, profile \in Profiles}

AnalysedServices ==
    {Service(at[1], at[2], selector) :
        at \in {<<SvcA, Ns1>>, <<SvcA, Ns2>>, <<SvcB, Ns2>>},
        selector \in {AppA, AppATierZ, NoLabels}}

AnalysedClusters == Clusters(AnalysedDeployments, AnalysedServices, {}, MaxAnalysed)

InitDeps ==
    /\ call = NoCall
    /\ cluster \in AnalysedClusters
    /\ args = [namespace |-> <<>>, resource_kind |-> "", analyze_dependencies |-> TRUE]
    /\ api = "accept"
    /\ resources = <<>>
    /\ pc = "start"
    /\ idx = 0
    /\ entity = NoEntity
    /\ http = NoHttp
    /\ requests = <<>>
    /\ returned = <<>>
    /\ harness_success_count = 0
    /\ registry = EmptyDict
    /\ run = 1
    /\ previousRun = NoPreviousRun

\* create_harness_entity on a resource that is not a Pod, the create request
\* answered 200
Publish ==
    /\ AtStableResource
    /\ LET resource == resources[idx]
           payload == Payload(resource, AllResources)
       IN  /\ entity' = [identifier |-> payload.yaml.identifier,
                         dependencies |-> Dependencies(resource, AllResources)]
           /\ http' = [NoHttp EXCEPT !.payload = payload,
                                     !.sent = <<CreateRequest(payload)>>,
                                     !.response = Answer(200, <<>>),
                                     !.result = "created"]
           /\ requests' = Append(requests, CreateRequest(payload))
    /\ Return("created")
    /\ UNCHANGED <<call, cluster, args, resources, api, registry, run, previousRun>>

NextDeps ==
    \/ Discover
    \/ Publish
    \/ Summarise

SpecDeps == InitDeps /\ [][NextDeps]_vars

----------------------------------------------------------------------------
(* Claims about the dependency analysis and the identifiers *)

\* every key of the selector is among the labels, with the same value
CarriesSelector(selector, labels) ==
    /\ DOMAIN selector # {}
    /\ \A k \in DOMAIN selector : k \in DOMAIN labels /\ labels[k] = selector[k]

DiscoveredServices == {i \in 1..Len(resources) : IsService(resources[i])}
DiscoveredDeployments == {i \in 1..Len(resources) : IsDeployment(resources[i])}

\* the mapping get_kubernetes_resources attached to the resources
RecordedMap == resources[1].service_to_deployment_map

RecordedAsImplementer(service, deployment) ==
    /\ service.name \in DOMAIN RecordedMap
    /\ deployment.name \in Range(RecordedMap[service.name])

\* no two Services and no two Deployments of the snapshot share a name
NamesAreUnique ==
    \A i, j \in 1..Len(resources) :
        (i # j /\ resources[i].kind = resources[j].kind)
            => resources[i].name # resources[j].name

\* C6: a Deployment is recorded as an implementer of a Service exactly if the
\* selector is non-empty and the Deployment carries every selector key with the
\* same value (stated for snapshots in which a name stands for one resource)
ImplementersCarrySelector ==
    (resources # <<>> /\ NamesAreUnique) =>
        \A i \in DiscoveredServices, j \in DiscoveredDeployments :
            RecordedAsImplementer(resources[i], resources[j])
                <=> CarriesSelector(resources[i].selector, resources[j].labels)

\* the resource create_harness_entity ran on last
Processed == resources[Len(returned)]

IsVia(dep) == dep.type = "Deployment" /\ "via" \in DOMAIN dep

\* a discovered resource without the mapping attached to it
AsListed(r) == [f \in (DOMAIN r) \ {"service_to_deployment_map"} |-> r[f]]

\* the one-Service/one-Deployment scenario: svc-a selects app=a, dep-a carries
\* app=a and names svc-a in TARGET, both in ns1
ScenarioOne ==
    /\ Len(resources) = 2
    /\ AsListed(resources[1]) = Deployment(DepA, Ns1, AppA, <<Env("TARGET", UrlSvcA)>>)
    /\ AsListed(resources[2]) = Service(SvcA, Ns1, AppA)

\* the "- Component:<name>" items of the rendered dependsOn block
DependsOnItems(yaml) ==
    LET IsItem(l) == l.line = "item"
        items == SelectSeq(yaml.dependsOn, IsItem)
    IN  [i \in 1..Len(items) |-> items[i].component]

\* C7: the dependencies computed for a Deployment hold no indirect entry that
\* points at the Deployment itself, and in the svc-a/dep-a scenario the rendered
\* dependsOn of dep-a is [Component:svc-a]
NoSelfDependency ==
    (returned # <<>> /\ IsDeployment(Processed)) =>
        /\ \A p \in 1..Len(entity.dependencies) :
              IsVia(entity.dependencies[p]) =>
                  ~(/\ entity.dependencies[p].name = Processed.name
                    /\ entity.dependencies[p].identifier = entity.identifier)
        /\ (ScenarioOne /\ Processed.name = DepA) =>
              /\ DependsOnItems(http.payload.yaml) = <<SvcA>>
              /\ Len(http.payload.yaml.dependsOn) = 1

\* C7's case: the processed Deployment is recorded as an implementer of a Service
\* it names in its environment, next to another implementer it depends on
NoSelfDependencyWitness ==
    /\ returned # <<>>
    /\ IsDeployment(Processed)
    /\ \E i \in DiscoveredServices :
          /\ RecordedAsImplementer(resources[i], Processed)
          /\ Len(RecordedMap[resources[i].name]) = 2
          /\ \E p \in 1..Len(entity.dependencies) :
                /\ entity.dependencies[p].type = "Service"
                /\ entity.dependencies[p].name = resources[i].name
    /\ \E p \in 1..Len(entity.dependencies) : IsVia(entity.dependencies[p])

\* the indirect entries that follow the direct entry at position p
ViaAfter(deps, p) ==
    LET last == CHOOSE q \in p..Len(deps) :
                    /\ \A r \in (p + 1)..q : IsVia(deps[r])
                    /\ (q = Len(deps) \/ ~IsVia(deps[q + 1]))
    IN  SubSeq(deps, p + 1, last)

\* every Deployment of the snapshot carries every selector key of every Service
LabelsCoverSelectors ==
    \A i \in DiscoveredServices, j \in DiscoveredDeployments :
        DOMAIN resources[i].selector \subseteq DOMAIN resources[j].labels

\* the Deployments a Service selects, without the consumer
SelectedOthers(service, consumer) ==
    {j \in DiscoveredDeployments :
        /\ CarriesSelector(service.selector, resources[j].labels)
        /\ ~(resources[j].name = consumer.name /\ resources[j].namespace = consumer.namespace)}

\* C9: after each direct entry for a Service (its name with its namespace) come
\* exactly the Deployments that Service's own selector matches, the consumer left
\* out, each with its own identifier (stated for snapshots in which every
\* Deployment carries every selector key)
IndirectFollowsOwnSelector ==
    (returned # <<>> /\ IsDeployment(Processed) /\ LabelsCoverSelectors) =>
        \A i \in DiscoveredServices, p \in 1..Len(entity.dependencies) :
            (/\ entity.dependencies[p].type = "Service"
             /\ entity.dependencies[p].name = resources[i].name
             /\ entity.dependencies[p].identifier =
                    generate_harness_identifier(resources[i].name, resources[i].namespace,
                                                resources[i].kind))
            => LET via == ViaAfter(entity.dependencies, p)
                   others == SelectedOthers(resources[i], Processed)
               IN  /\ Len(via) = Cardinality(others)
                   /\ {via[q].identifier : q \in 1..Len(via)} =
                        {generate_harness_identifier(resources[j].name, resources[j].namespace,
                                                     resources[j].kind) : j \in others}

\* the Services of the snapshot, in snapshot order
SnapshotServices == SelectSeq(resources, IsService)

\* the identifier a direct entry for the Service carries
ServiceIdentifier(service) ==
    generate_harness_identifier(service.name, service.namespace, service.kind)

\* the environment value names the Service, letter case aside
Names(env_value, service) == Contains(Lower(env_value), Lower(service.name))

\* the identifiers of the Services one environment value names, in snapshot order
NamedBy(env_value) ==
    LET Named(service) == Names(env_value, service)
        named == SelectSeq(SnapshotServices, Named)
    IN  [i \in 1..Len(named) |-> ServiceIdentifier(named[i])]

\* the identifiers of the Services some environment value of the consumer names,
\* each once, in snapshot order
NamedBySome(consumer) ==
    LET Named(service) ==
            \E e \in 1..Len(consumer.env_vars) : Names(consumer.env_vars[e].value, service)
        named == SelectSeq(SnapshotServices, Named)
    IN  [i \in 1..Len(named) |-> ServiceIdentifier(named[i])]

\* the identifiers of the direct entries, in the order of the list
DirectIdentifiers(deps) ==
    LET IsDirect(dep) == dep.type = "Service"
        direct == SelectSeq(deps, IsDirect)
    IN  [i \in 1..Len(direct) |-> direct[i].identifier]

\* the implementer list recorded under the name of a Service, the entries named
\* like the consumer left out
ImplementersFor(service_name, consumer) ==
    LET NotConsumer(dep_name) == dep_name # consumer.name
    IN  IF service_name \in DOMAIN RecordedMap
        THEN SelectSeq(RecordedMap[service_name], NotConsumer)
        ELSE <<>>

\* the list starts with a direct entry, and each direct entry is immediately
\* followed by the recorded implementers of its Service, in the order of the
\* implementer list, each tagged with the Service
DirectThenImplementers(deps, consumer) ==
    /\ deps # <<>> => deps[1].type = "Service"
    /\ \A p \in 1..Len(deps) :
          deps[p].type = "Service" =>
              LET via == ViaAfter(deps, p)
              IN  /\ [q \in 1..Len(via) |-> via[q].name]
                        = ImplementersFor(deps[p].name, consumer)
                  /\ \A q \in 1..Len(via) : via[q].via = deps[p].name

\* the "# via service" comments and "- Component:" items an entry list renders to
RenderedFrom(deps) ==
    Concat([p \in 1..Len(deps) |->
        IF IsVia(deps[p])
        THEN <<[line |-> "comment", service |-> deps[p].via],
               [line |-> "item", component |-> deps[p].name]>>
        ELSE <<[line |-> "item", component |-> deps[p].name]>>])

\* C11 as stated: the direct entries of a Deployment are the Services named by
\* its environment, each once and in snapshot order, whatever the order and the
\* number of the environment values naming them; each direct entry is
\* immediately followed by its indirect entries in implementer-list order, and
\* dependsOn is rendered in the order of the entries
EdgesInSnapshotOrder ==
    (returned # <<>> /\ IsDeployment(Processed)) =>
        /\ DirectIdentifiers(entity.dependencies) = NamedBySome(Processed)
        /\ DirectThenImplementers(entity.dependencies, Processed)
        /\ http.payload.yaml.dependsOn = RenderedFrom(entity.dependencies)

\* C11 amended: the direct entries of a Deployment follow its environment values
\* in their order, and for each value the Services it names in snapshot order,
\* so that a Service named by several values has several direct entries; each
\* direct entry is immediately followed by its indirect entries in
\* implementer-list order, and dependsOn is rendered in the order of the entries
EdgesInEnvironmentOrder ==
    (returned # <<>> /\ IsDeployment(Processed)) =>
        /\ DirectIdentifiers(entity.dependencies) =
               Concat([e \in 1..Len(Processed.env_vars) |->
                          NamedBy(Processed.env_vars[e].value)])
        /\ DirectThenImplementers(entity.dependencies, Processed)
        /\ http.payload.yaml.dependsOn = RenderedFrom(entity.dependencies)

\* C11's case: the processed Deployment names one Service in two environment
\* values and so has two direct entries for it, each followed by an indirect
\* entry, while the implementer list of the Service also holds the consumer
EdgesInEnvironmentOrderWitness ==
    /\ returned # <<>>
    /\ IsDeployment(Processed)
    /\ Len(Processed.env_vars) >= 2
    /\ Len(entity.dependencies) >= 4
    /\ entity.dependencies[1].type = "Service"
    /\ IsVia(entity.dependencies[2])
    /\ entity.dependencies[3].type = "Service"
    /\ entity.dependencies[3].identifier = entity.dependencies[1].identifier
    /\ IsVia(entity.dependencies[4])
    /\ Processed.name \in Range(RecordedMap[entity.dependencies[1].name])
    /\ DirectIdentifiers(entity.dependencies) # NamedBySome(Processed)


\* the length of the string a request's identifier was cut from
JoinedLen(request) ==
    LET for == RequestedFor(request)
    IN  Len(JoinedName(for[2], for[3], for[1]))

\* C10: two resources of a snapshot that differ in namespace, kind or name, with
\* joined strings of at most 128 characters, are published under different identifiers
IdentifiersDistinct ==
    \A i, j \in 1..Len(requests) :
        (/\ RequestedFor(requests[i]) # RequestedFor(requests[j])
         /\ JoinedLen(requests[i]) <= 128
         /\ JoinedLen(requests[j]) <= 128)
        => requests[i].payload.yaml.identifier # requests[j].payload.yaml.identifier

====
